---- MODULE Spec2Model ----
(***************************************************************************)
(* A model of src/main.py: the permanent-link service.                     *)
(*                                                                         *)
(*  - the Link Store (load_links, save_links, get_next_consecutive_id)     *)
(*    over the flat document links.json;                                   *)
(*  - the transfer pipeline download_and_upload_to_github and the three    *)
(*    remote calls it makes (create_github_release, upload_file_to_release,*)
(*    delete_github_release);                                              *)
(*  - the request handlers create_permanent_link, download_file,           *)
(*    list_links, edit_link and delete_link, run by the threads of the     *)
(*    server (app.run(..., threaded=True)) without any lock;               *)
(*  - json.dump and json.load on the text of links.json;                   *)
(*  - the Filename Resolver of the pipeline (Content-Disposition, URL      *)
(*    path, query, fallback) and the cleaning of the name it gives.        *)
(*                                                                         *)
(* Strings that the code inspects character by character (link ids) are    *)
(* sequences of one-character strings: "01" is <<"0", "1">>.               *)
(***************************************************************************)
EXTENDS Integers, Sequences, FiniteSets, TLC

VARIABLES
    doc,        \* the file links.json: [kind, map, len]
    backups,    \* contents renamed aside as links.json.backup.<timestamp>
    wh,         \* per thread: where its open write handle of save_links points
    pc,         \* per thread: position of the handler it runs
    links,      \* per thread: the handler's local dict `links`
    loc,        \* per thread: the handler's other locals
    resp,       \* per thread: the response of its last finished request
    releases,   \* remote: ids of the releases that exist
    nextRel,    \* remote: id the next created release gets
    delCalls,   \* remote: release ids delete_github_release was called for
    delOK,      \* remote: release ids whose deletion succeeded
    nreq,       \* number of requests started so far (also the clock)
    amap,       \* allocator check: the mapping given to get_next_consecutive_id
    aout,       \* allocator check: the id it returned
    served,     \* the source: size of the body it serves
    pin,        \* function check: the input given to the function under check
    pout        \* function check: what the function has produced so far

vars == <<doc, backups, wh, pc, links, loc, resp, releases, nextRel,
          delCalls, delOK, nreq, amap, aout, served, pin, pout>>

----------------------------------------------------------------------------
(* Bounds of the model.                                                    *)

MaxRequests == 3
MaxKeys == 4

Threads == {"t1", "t2"}

----------------------------------------------------------------------------
(* Strings and Python's int() / str().                                     *)

Digits == <<"0", "1", "2", "3", "4", "5", "6", "7", "8", "9">>

IsDigit(c) == \E i \in 1..10 : Digits[i] = c

DigitVal(c) == (CHOOSE i \in 1..10 : Digits[i] = c) - 1

\* The literal after an optional sign: digits, single underscores allowed
\* between two digits (int("1_0") == 10, int("_1"), int("1__0") raise).
IsDigitBody(s) ==
    /\ Len(s) > 0
    /\ IsDigit(s[1])
    /\ IsDigit(s[Len(s)])
    /\ \A i \in 1..Len(s) : IsDigit(s[i]) \/ s[i] = "_"
    /\ \A i \in 1..(Len(s) - 1) : ~(s[i] = "_" /\ s[i + 1] = "_")

HasSign(s) == Len(s) > 0 /\ s[1] \in {"-", "+"}

Unsigned(s) == IF HasSign(s) THEN Tail(s) ELSE s

\* int(s) does not raise ValueError
IsIntLiteral(s) == IsDigitBody(Unsigned(s))

RECURSIVE DigitsValue(_, _)
DigitsValue(s, acc) ==
    IF s = << >> THEN acc
    ELSE IF Head(s) = "_" THEN DigitsValue(Tail(s), acc)
    ELSE DigitsValue(Tail(s), 10 * acc + DigitVal(Head(s)))

\* int(s), for s with IsIntLiteral(s)
IntValue(s) ==
    IF HasSign(s) /\ s[1] = "-" THEN 0 - DigitsValue(Tail(s), 0)
    ELSE DigitsValue(Unsigned(s), 0)

RECURSIVE NatStr(_)
NatStr(n) ==
    IF n < 10 THEN <<Digits[n + 1]>>
    ELSE NatStr(n \div 10) \o <<Digits[(n % 10) + 1]>>

\* str(n)
IntStr(n) == IF n < 0 THEN <<"-">> \o NatStr(0 - n) ELSE NatStr(n)

----------------------------------------------------------------------------
(* get_next_consecutive_id                                                 *)

\* numeric_ids after the loop over links.keys() and numeric_ids.sort():
\* the ints of the keys int() accepts, duplicates kept, ascending.
RECURSIVE SortedInts(_)
SortedInts(keys) ==
    IF keys = {} THEN << >>
    ELSE LET lo == CHOOSE k \in keys : \A j \in keys : IntValue(k) <= IntValue(j)
         IN  <<IntValue(lo)>> \o SortedInts(keys \ {lo})

numeric_ids(m) == SortedInts({k \in DOMAIN m : IsIntLiteral(k)})

\* for existing_id in numeric_ids: ==  -> += 1,  >  -> break
RECURSIVE ScanIds(_, _, _)
ScanIds(ids, i, next_id) ==
    IF i > Len(ids) THEN next_id
    ELSE IF ids[i] = next_id THEN ScanIds(ids, i + 1, next_id + 1)
    ELSE IF ids[i] > next_id THEN next_id
    ELSE ScanIds(ids, i + 1, next_id)

\* A variant that numbers by the count of numeric ids.
get_next_consecutive_id_count(m) == IntStr(Len(numeric_ids(m)))

\* A variant that never reuses a gap: one past the largest numeric id.
get_next_consecutive_id_max(m) ==
    LET ids == numeric_ids(m)
    IN  IF ids = << >> \/ ids[Len(ids)] < 0 THEN IntStr(0)
        ELSE IntStr(ids[Len(ids)] + 1)

get_next_consecutive_id(m) == IntStr(ScanIds(numeric_ids(m), 1, 0))

----------------------------------------------------------------------------
(* The data model: link records and the document links.json.               *)

EmptyMap == [k \in {} |-> 0]

\* d with key k bound to v (Python: d[k] = v)
MapPut(m, k, v) == [x \in (DOMAIN m) \cup {k} |-> IF x = k THEN v ELSE m[x]]

\* d without key k (Python: del d[k])
MapDel(m, k) == [x \in (DOMAIN m) \ {k} |-> m[x]]

\* The dict download_and_upload_to_github returns.
file_info(filename, content_type, size, release, asset) ==
    [filename          |-> filename,
     content_type      |-> content_type,
     file_size         |-> size,
     github_release_id |-> release,
     github_asset_id   |-> asset,
     download_url      |-> IF asset = 0 THEN << >> ELSE <<"asset", asset>>,
     release_url       |-> IF release = 0 THEN << >> ELSE <<"release", release>>]

\* The value create_permanent_link stores under link_id.
link_record(temp_url, now, fi) ==
    [original_url |-> temp_url,
     created_at   |-> now,
     access_count |-> 0,
     file_info    |-> fi]

\* Contents of links.json. kind: "missing" (no file), "dict" (a JSON object,
\* map holds it), "nondict" (valid JSON, not an object), "corrupt" (not JSON),
\* "partial" (opened for writing, not yet written: not JSON either),
\* "undecodable" (not even text).
\* len is the size of the content, counted in records.
Missing == [kind |-> "missing", map |-> EmptyMap, len |-> 0]
Partial == [kind |-> "partial", map |-> EmptyMap, len |-> 0]
Corrupt(n) == [kind |-> "corrupt", map |-> EmptyMap, len |-> n]
NonDict == [kind |-> "nondict", map |-> EmptyMap, len |-> 1]
\* Bytes that are no text: f.read() raises UnicodeDecodeError.
Undecodable == [kind |-> "undecodable", map |-> EmptyMap, len |-> 1]

DocLen(m) == 1 + Cardinality(DOMAIN m)

\* json.dump(links, f, indent=2), complete
Dumped(m) == [kind |-> "dict", map |-> m, len |-> DocLen(m)]

----------------------------------------------------------------------------
(* load_links and save_links                                               *)

\* load_links() on document d with backups b: the mapping returned, and the
\* file system it leaves.
load_links(d, b) ==
    IF d.kind = "missing"
      THEN [ret |-> EmptyMap, doc |-> d, backups |-> b, renamed |-> FALSE]
    ELSE IF d.kind = "dict"
      THEN [ret |-> d.map, doc |-> d, backups |-> b, renamed |-> FALSE]
    ELSE IF d.kind = "nondict"
      THEN [ret |-> EmptyMap, doc |-> d, backups |-> b, renamed |-> FALSE]
    ELSE IF d.kind = "undecodable"   \* except Exception: return {}
      THEN [ret |-> EmptyMap, doc |-> d, backups |-> b, renamed |-> FALSE]
    ELSE \* json.JSONDecodeError: os.rename(LINKS_FILE, backup_name)
           [ret |-> EmptyMap, doc |-> Missing, backups |-> b \cup {d},
            renamed |-> TRUE]

\* The handles of save_links calls in progress after a load: a renamed file
\* takes the handles open on it along.
HandlesAfterLoad(L) ==
    [q \in DOMAIN wh |-> IF L.renamed /\ wh[q] = "path" THEN "aside" ELSE wh[q]]

\* The file after close() flushes m at offset 0 of a file holding old: a
\* shorter m leaves the tail of old behind it, which is not JSON.
WriteOver(old, m) ==
    IF old.kind = "partial" \/ DocLen(m) > old.len THEN {Dumped(m)}
    ELSE IF DocLen(m) < old.len THEN {Corrupt(old.len)}
    ELSE IF old = Dumped(m) THEN {Dumped(m)}
    ELSE {Dumped(m), Corrupt(old.len)}

----------------------------------------------------------------------------
(* Requests, locals and responses.                                         *)

\* The inputs the clients send.
Urls == {"", "https://example.com/video.mp4"}
CustomNames == {<< >>, <<"a">>}
RequestIds == {<<"0">>, <<"1">>, <<"a">>}
NewIds == {<< >>, <<"b">>, <<"0">>, <<"-", "b">>}

\* GITHUB_TOKEN, GITHUB_OWNER and GITHUB_REPO are set in the deployment.
github_configured == TRUE

\* What the source serves for a URL that answers; SourceSize is the size of
\* an ordinary body.
SourceContentType == "video/mp4"
SourceSize == 1

\* The locals of a handler; calls lists the I/O calls it has made so far,
\* release_posts counts its POSTs to the releases endpoint.
NoLocals ==
    [op |-> "none", link_id |-> << >>, temp_url |-> "", new_link_id |-> << >>,
     filename |-> "", content_type |-> "", size |-> -1,
     fut |-> "none", body |-> "none", release |-> 0, asset |-> 0,
     release_posts |-> 0, calls |-> {}]

\* A response, with the request it answers (op) and the calls that request made.
NoResponse ==
    [op |-> "none", status |-> 0, error |-> "", link_id |-> << >>,
     location |-> << >>, calls |-> {}]

Response(op, status, error, link_id, location, calls) ==
    [op |-> op, status |-> status, error |-> error, link_id |-> link_id,
     location |-> location, calls |-> calls]

\* The handler of thread p returns r: its locals are gone.
Return(p, r) ==
    /\ resp' = [resp EXCEPT ![p] = r]
    /\ pc' = [pc EXCEPT ![p] = "idle"]
    /\ loc' = [loc EXCEPT ![p] = NoLocals]
    /\ links' = [links EXCEPT ![p] = EmptyMap]

\* The handler of thread p goes on at `at` with dict m and locals l.
Goto(p, at, m, l) ==
    /\ pc' = [pc EXCEPT ![p] = at]
    /\ links' = [links EXCEPT ![p] = m]
    /\ loc' = [loc EXCEPT ![p] = l]
    /\ resp' = [resp EXCEPT ![p] = NoResponse]

\* A thread takes the next request.
Accepts(p) == pc[p] = "idle" /\ nreq < MaxRequests

\* The locals of a handler that has just called load_links().
Loaded(op, link_id) ==
    [NoLocals EXCEPT !.op = op, !.link_id = link_id, !.calls = {"load_links"}]

\* The file system after load_links() returned L.
LoadEffect(L) ==
    /\ doc' = L.doc
    /\ backups' = L.backups
    /\ wh' = HandlesAfterLoad(L)

REMOTE == <<releases, nextRel, delCalls, delOK>>
FILES == <<doc, backups, wh>>
ALLOC == <<amap, aout>>
\* What no handler changes.
FIXED == <<served, pin, pout>>

----------------------------------------------------------------------------
(* The remote API.                                                         *)

\* delete_github_release(release_id); ok: the API answered 2xx, otherwise
\* raise_for_status() raises.
delete_github_release(release_id, ok) ==
    /\ delCalls' = delCalls \cup {release_id}
    /\ releases' = IF ok THEN releases \ {release_id} ELSE releases
    /\ delOK' = IF ok THEN delOK \cup {release_id} ELSE delOK
    /\ UNCHANGED nextRel

----------------------------------------------------------------------------
(* POST /create: create_permanent_link and download_and_upload_to_github   *)

\* The name the Filename Resolver gives the served file; the service keeps
\* it whole, the resolver itself is modelled on characters further down.
resolve_filename(url) == "video.mp4"

\* A variant that checks no custom name against the store.
name_taken_never(custom_name, m) == FALSE

\* if custom_name and link_id in links
name_taken(custom_name, m) == custom_name # << >> /\ custom_name \in DOMAIN m

create_permanent_link(p, temp_url, custom_name) ==
    /\ Accepts(p)
    /\ nreq' = nreq + 1
    /\ UNCHANGED <<REMOTE, ALLOC, FIXED>>
    /\ IF temp_url = ""
         THEN /\ Return(p, Response("create", 400, "No URL provided", << >>, << >>, {}))
              /\ UNCHANGED FILES
       ELSE IF ~github_configured
         THEN /\ Return(p, Response("create", 500, "GitHub configuration missing",
                                    << >>, << >>, {}))
              /\ UNCHANGED FILES
       ELSE LET L == load_links(doc, backups)
                link_id == IF custom_name # << >> THEN custom_name
                           ELSE get_next_consecutive_id(L.ret)
            IN  /\ LoadEffect(L)
                /\ IF name_taken(custom_name, L.ret)
                     THEN Return(p, Response("create", 400, "Custom name already exists",
                                             << >>, << >>, {"load_links"}))
                     ELSE Goto(p, "c_get", L.ret,
                               [Loaded("create", link_id) EXCEPT !.temp_url = temp_url])

\* The pipeline of p raises `error` after the calls in `calls`:
\* create_permanent_link answers 500 with the wrapped message.
PipelineFails(p, calls, error) ==
    Return(p, Response("create", 500, error, << >>, << >>, calls))

\* download_session.get(url, stream=True); raise_for_status(); the filename
\* is resolved and create_github_release is submitted to the executor.
source_get(p) ==
    /\ pc[p] = "c_get"
    /\ \E ok \in BOOLEAN :
         IF ok
           THEN Goto(p, "c_body", links[p],
                     [loc[p] EXCEPT !.calls = @ \cup {"get"},
                                    !.filename = resolve_filename(loc[p].temp_url),
                                    !.content_type = SourceContentType,
                                    !.fut = "pending",
                                    !.body = "reading"])
           ELSE PipelineFails(p, loc[p].calls \cup {"get"},
                              "Processing failed: source request failed")
    /\ UNCHANGED <<FILES, REMOTE, nreq, ALLOC, FIXED>>

\* What the API answers a POST to the releases endpoint: 201 with the
\* release, the validation error for a tag that already exists, or any other
\* failure.
ReleaseAnswers == {"created", "tag_exists", "err"}

\* The executor's worker runs create_github_release: 201 gives the release,
\* every other answer raises.
create_github_release(p) ==
    /\ pc[p] = "c_body"
    /\ loc[p].fut = "pending"
    /\ \E answer \in ReleaseAnswers :
         IF answer = "created"
           THEN /\ releases' = releases \cup {nextRel}
                /\ nextRel' = nextRel + 1
                /\ loc' = [loc EXCEPT ![p].calls = @ \cup {"create_release"},
                                      ![p].release_posts = @ + 1,
                                      ![p].fut = "ok",
                                      ![p].release = nextRel]
           ELSE /\ loc' = [loc EXCEPT ![p].calls = @ \cup {"create_release"},
                                      ![p].release_posts = @ + 1,
                                      ![p].fut = answer]
                /\ UNCHANGED <<releases, nextRel>>
    /\ UNCHANGED <<FILES, links, pc, resp, delCalls, delOK, nreq, ALLOC, FIXED>>

\* for chunk in response.iter_content(...): the body arrives, or the
\* connection breaks and the loop raises.
read_body(p) ==
    /\ pc[p] = "c_body"
    /\ loc[p].body = "reading"
    /\ \E ok \in BOOLEAN :
         loc' = [loc EXCEPT ![p].body = IF ok THEN "ok" ELSE "err",
                            ![p].size = IF ok THEN served ELSE -1]
    /\ UNCHANGED <<FILES, links, pc, resp, REMOTE, nreq, ALLOC, FIXED>>

\* A variant that goes on to the upload as soon as the release is there.
release_result_early(p) ==
    /\ pc[p] = "c_body"
    /\ loc[p].fut \in ReleaseAnswers \cup {"ok"}
    /\ IF loc[p].fut = "ok"
         THEN Goto(p, "c_upload", links[p], loc[p])
         ELSE PipelineFails(p, loc[p].calls, "Processing failed: GitHub API failed")
    /\ UNCHANGED <<FILES, REMOTE, nreq, ALLOC, FIXED>>

\* A variant that goes on only when both the body and the release are there,
\* and waits otherwise.
release_result_waits(p) ==
    /\ pc[p] = "c_body"
    /\ loc[p].body = "ok"
    /\ loc[p].fut = "ok"
    /\ Goto(p, "c_upload", links[p], loc[p])
    /\ UNCHANGED <<FILES, REMOTE, nreq, ALLOC, FIXED>>

\* Leaving the with-block: the executor's shutdown waits for the worker;
\* a raised download error goes on, else release_future.result() returns the
\* release or raises.
release_result(p) ==
    /\ pc[p] = "c_body"
    /\ loc[p].body \in {"ok", "err"}
    /\ loc[p].fut \in ReleaseAnswers \cup {"ok"}
    /\ IF loc[p].body = "ok" /\ loc[p].fut = "ok"
         THEN Goto(p, "c_upload", links[p], loc[p])
         ELSE PipelineFails(p, loc[p].calls,
                            IF loc[p].body = "err"
                              THEN "Processing failed: source download failed"
                              ELSE "Processing failed: GitHub API failed")
    /\ UNCHANGED <<FILES, REMOTE, nreq, ALLOC, FIXED>>

\* A variant that stores the record whatever the upload did.
after_upload_store(ok) == "c_store"

\* Where the pipeline goes after upload_file_to_release returned (ok) or
\* raised.
after_upload(ok) == IF ok THEN "c_store" ELSE "c_cleanup"

\* upload_file_to_release(release['id'], filename, file_content, ...);
\* the asset's id is the release's in this model.
upload_file_to_release(p) ==
    /\ pc[p] = "c_upload"
    /\ \E ok \in BOOLEAN :
         Goto(p, after_upload(ok), links[p],
              [loc[p] EXCEPT !.calls = @ \cup {"upload"},
                             !.asset = IF ok THEN loc[p].release ELSE 0])
    /\ UNCHANGED <<FILES, REMOTE, nreq, ALLOC, FIXED>>

\* A variant that raises the upload error at once, the release left behind.
upload_error_cleanup_skipped(p) ==
    /\ pc[p] = "c_cleanup"
    /\ PipelineFails(p, loc[p].calls, "Processing failed: GitHub upload failed")
    /\ UNCHANGED <<FILES, REMOTE, nreq, ALLOC, FIXED>>

\* except Exception as upload_error: delete_github_release(release['id']),
\* whatever it raises is dropped; raise upload_error.
upload_error_cleanup(p) ==
    /\ pc[p] = "c_cleanup"
    /\ \E ok \in BOOLEAN : delete_github_release(loc[p].release, ok)
    /\ PipelineFails(p, loc[p].calls \cup {"delete_release"},
                     "Processing failed: GitHub upload failed")
    /\ UNCHANGED <<FILES, nreq, ALLOC, FIXED>>

\* links[link_id] = {...} with the file_info the pipeline returned.
store_record(p) ==
    /\ pc[p] = "c_store"
    /\ Goto(p, "save_open",
            MapPut(links[p], loc[p].link_id,
                   link_record(loc[p].temp_url, nreq,
                               file_info(loc[p].filename, loc[p].content_type,
                                         loc[p].size, loc[p].release, loc[p].asset))),
            loc[p])
    /\ UNCHANGED <<FILES, REMOTE, nreq, ALLOC, FIXED>>

----------------------------------------------------------------------------
(* save_links: open(LINKS_FILE, 'w') truncates, close() writes.            *)

save_links_open(p) ==
    /\ pc[p] = "save_open"
    /\ doc' = Partial
    /\ wh' = [wh EXCEPT ![p] = "path"]
    /\ Goto(p, "save_close", links[p], [loc[p] EXCEPT !.calls = @ \cup {"save_links"}])
    /\ UNCHANGED <<backups, REMOTE, nreq, ALLOC, FIXED>>

\* What the handler answers once save_links returned.
response_after_save(p) ==
    LET l == loc[p]
    IN  IF l.op = "create"
          THEN Response("create", 200, "", l.link_id,
                        links[p][l.link_id].file_info.download_url, l.calls)
        ELSE IF l.op = "download"
          THEN Response("download", 302, "", l.link_id,
                        links[p][l.link_id].file_info.download_url, l.calls)
        ELSE Response(l.op, 200, "", << >>, << >>, l.calls)

save_links_close(p) ==
    /\ pc[p] = "save_close"
    /\ IF wh[p] = "path"
         THEN doc' \in WriteOver(doc, links[p])
         ELSE doc' = doc      \* the file was renamed aside: the backup gets it
    /\ wh' = [wh EXCEPT ![p] = "none"]
    /\ Return(p, response_after_save(p))
    /\ UNCHANGED <<backups, REMOTE, nreq, ALLOC, FIXED>>

----------------------------------------------------------------------------
(* GET /download/<link_id>, GET /api/links                                 *)

\* A variant that counts an access twice.
count_access_twice(m, link_id) == [m EXCEPT ![link_id].access_count = @ + 2]

\* links[link_id]['access_count'] += 1
count_access(m, link_id) == [m EXCEPT ![link_id].access_count = @ + 1]

download_file(p, link_id) ==
    /\ Accepts(p)
    /\ nreq' = nreq + 1
    /\ LET L == load_links(doc, backups)
       IN  /\ LoadEffect(L)
           /\ IF link_id \notin DOMAIN L.ret
                THEN Return(p, Response("download", 404, "Link not found", << >>, << >>,
                                        {"load_links"}))
                ELSE Goto(p, "save_open", count_access(L.ret, link_id),
                          Loaded("download", link_id))
    /\ UNCHANGED <<REMOTE, ALLOC, FIXED>>

list_links(p) ==
    /\ Accepts(p)
    /\ nreq' = nreq + 1
    /\ LET L == load_links(doc, backups)
       IN  /\ LoadEffect(L)
           /\ Return(p, Response("list", 200, "", << >>, << >>, {"load_links"}))
    /\ UNCHANGED <<REMOTE, ALLOC, FIXED>>

----------------------------------------------------------------------------
(* PUT /admin/edit/<link_id>                                               *)

MaxIdLen == 50

Letters == {"a", "b"}

\* re.match(r'^[a-zA-Z0-9-_]+$', new_link_id)
IdCharsOk(s) ==
    /\ Len(s) > 0
    /\ \A i \in 1..Len(s) : IsDigit(s[i]) \/ s[i] \in Letters \/ s[i] \in {"-", "_"}

\* The 400 edit_link answers for new_link_id, "" when it passes.
edit_rejects(m, link_id, new_link_id) ==
    IF new_link_id = << >> THEN "New link ID is required"
    ELSE IF ~IdCharsOk(new_link_id) THEN "Link ID has invalid characters"
    ELSE IF Len(new_link_id) > MaxIdLen THEN "Link ID too long"
    ELSE IF new_link_id[1] = "-" \/ new_link_id[Len(new_link_id)] = "-"
      THEN "Link ID cannot start or end with a hyphen"
    ELSE IF new_link_id \in DOMAIN m /\ new_link_id # link_id
      THEN "Link ID already exists"
    ELSE ""

\* A variant that leaves the record under its old id too.
move_link_copy(m, link_id, new_link_id) == MapPut(m, new_link_id, m[link_id])

\* links[new_link_id] = links[link_id]; del links[link_id]
move_link(m, link_id, new_link_id) == MapDel(MapPut(m, new_link_id, m[link_id]), link_id)

edit_link(p, link_id, new_link_id) ==
    /\ Accepts(p)
    /\ nreq' = nreq + 1
    /\ LET L == load_links(doc, backups)
           why == edit_rejects(L.ret, link_id, new_link_id)
       IN  /\ LoadEffect(L)
           /\ IF link_id \notin DOMAIN L.ret
                THEN Return(p, Response("edit", 404, "Link not found", << >>, << >>,
                                        {"load_links"}))
              ELSE IF why # ""
                THEN Return(p, Response("edit", 400, why, << >>, << >>, {"load_links"}))
              ELSE IF new_link_id = link_id
                THEN Return(p, Response("edit", 200, "", << >>, << >>, {"load_links"}))
              ELSE Goto(p, "save_open", move_link(L.ret, link_id, new_link_id),
                        [Loaded("edit", link_id) EXCEPT !.new_link_id = new_link_id])
    /\ UNCHANGED <<REMOTE, ALLOC, FIXED>>

----------------------------------------------------------------------------
(* DELETE /admin/delete/<link_id>                                          *)

delete_link(p, link_id) ==
    /\ Accepts(p)
    /\ nreq' = nreq + 1
    /\ LET L == load_links(doc, backups)
       IN  /\ LoadEffect(L)
           /\ IF link_id \notin DOMAIN L.ret
                THEN Return(p, Response("delete", 404, "Link not found", << >>, << >>,
                                        {"load_links"}))
                ELSE Goto(p, "d_release", L.ret, Loaded("delete", link_id))
    /\ UNCHANGED <<REMOTE, ALLOC, FIXED>>

\* A variant whose failed delete_github_release ends the request with a 500.
delete_link_release_escalates(p) ==
    /\ pc[p] = "d_release"
    /\ \E ok \in BOOLEAN :
         /\ delete_github_release(links[p][loc[p].link_id].file_info.github_release_id, ok)
         /\ IF ok
              THEN Goto(p, "save_open", MapDel(links[p], loc[p].link_id),
                        [loc[p] EXCEPT !.calls = @ \cup {"delete_release"}])
              ELSE Return(p, Response("delete", 500, "delete failed", << >>, << >>,
                                      loc[p].calls \cup {"delete_release"}))
    /\ UNCHANGED <<FILES, nreq, ALLOC, FIXED>>

\* delete_github_release(release_id) in its own try, a failure only printed;
\* then del links[link_id].
delete_link_release(p) ==
    /\ pc[p] = "d_release"
    /\ \E ok \in BOOLEAN :
         delete_github_release(links[p][loc[p].link_id].file_info.github_release_id, ok)
    /\ Goto(p, "save_open", MapDel(links[p], loc[p].link_id),
            [loc[p] EXCEPT !.calls = @ \cup {"delete_release"}])
    /\ UNCHANGED <<FILES, nreq, ALLOC, FIXED>>

----------------------------------------------------------------------------
(* The service.                                                            *)

\* A first deployment: no links.json yet.
Init ==
    /\ doc = Missing
    /\ backups = {}
    /\ wh = [p \in Threads |-> "none"]
    /\ pc = [p \in Threads |-> "idle"]
    /\ links = [p \in Threads |-> EmptyMap]
    /\ loc = [p \in Threads |-> NoLocals]
    /\ resp = [p \in Threads |-> NoResponse]
    /\ releases = {}
    /\ nextRel = 1
    /\ delCalls = {}
    /\ delOK = {}
    /\ nreq = 0
    /\ amap = EmptyMap
    /\ aout = << >>
    /\ served = SourceSize
    /\ pin = << >>
    /\ pout = << >>

Step(p) ==
    \/ \E u \in Urls, c \in CustomNames : create_permanent_link(p, u, c)
    \/ source_get(p)
    \/ create_github_release(p)
    \/ read_body(p)
    \/ release_result(p)
    \/ upload_file_to_release(p)
    \/ upload_error_cleanup(p)
    \/ store_record(p)
    \/ save_links_open(p)
    \/ save_links_close(p)
    \/ \E i \in RequestIds : download_file(p, i)
    \/ list_links(p)
    \/ \E i \in RequestIds, n \in NewIds : edit_link(p, i, n)
    \/ \E i \in RequestIds : delete_link(p, i)
    \/ delete_link_release(p)

Next == \E p \in Threads : Step(p)

Spec == Init /\ [][Next]_vars

\* A step of the handler thread p is in: one of its calls returns or raises.
Proceed(p) ==
    \/ source_get(p)
    \/ create_github_release(p)
    \/ read_body(p)
    \/ release_result(p)
    \/ upload_file_to_release(p)
    \/ upload_error_cleanup(p)
    \/ store_record(p)
    \/ save_links_open(p)
    \/ save_links_close(p)
    \/ delete_link_release(p)

\* The service under a scheduler that lets every handler thread run
\* (app.run(..., threaded=True) gives each request a thread of its own) and
\* with a source and a remote API whose calls all return or raise.
SpecFair == Init /\ [][Next]_vars /\ \A p \in Threads : WF_vars(Proceed(p))

\* The same service with its requests served one after the other: a thread
\* steps only while no other thread is inside a handler.
Alone(p) == \A q \in Threads \ {p} : pc[q] = "idle"

NextSeq ==
    \E p \in Threads :
        \/ Alone(p) /\ \E u \in Urls, c \in CustomNames : create_permanent_link(p, u, c)
        \/ Alone(p) /\ \E i \in RequestIds : download_file(p, i)
        \/ Alone(p) /\ list_links(p)
        \/ Alone(p) /\ \E i \in RequestIds, n \in NewIds : edit_link(p, i, n)
        \/ Alone(p) /\ \E i \in RequestIds : delete_link(p, i)
        \/ source_get(p)
        \/ create_github_release(p)
        \/ read_body(p)
        \/ release_result(p)
        \/ upload_file_to_release(p)
        \/ upload_error_cleanup(p)
        \/ store_record(p)
        \/ save_links_open(p)
        \/ save_links_close(p)
        \/ delete_link_release(p)

SpecSeq == Init /\ [][NextSeq]_vars

\* The same, in front of a source whose bodies are larger than an ordinary
\* one.
InitLarge ==
    /\ served = SourceSize + 1
    /\ doc = Missing
    /\ backups = {}
    /\ wh = [p \in Threads |-> "none"]
    /\ pc = [p \in Threads |-> "idle"]
    /\ links = [p \in Threads |-> EmptyMap]
    /\ loc = [p \in Threads |-> NoLocals]
    /\ resp = [p \in Threads |-> NoResponse]
    /\ releases = {}
    /\ nextRel = 1
    /\ delCalls = {}
    /\ delOK = {}
    /\ nreq = 0
    /\ amap = EmptyMap
    /\ aout = << >>
    /\ pin = << >>
    /\ pout = << >>

SpecLarge == InitLarge /\ [][NextSeq]_vars

\* The service started over a links.json that an earlier run or an editor
\* left damaged: valid JSON that is no object, text that is no JSON, or
\* bytes that are no text.
InitDocs == {Missing, NonDict, Corrupt(1), Undecodable}

InitRecovery ==
    /\ doc \in InitDocs
    /\ backups = {}
    /\ wh = [p \in Threads |-> "none"]
    /\ pc = [p \in Threads |-> "idle"]
    /\ links = [p \in Threads |-> EmptyMap]
    /\ loc = [p \in Threads |-> NoLocals]
    /\ resp = [p \in Threads |-> NoResponse]
    /\ releases = {}
    /\ nextRel = 1
    /\ delCalls = {}
    /\ delOK = {}
    /\ nreq = 0
    /\ amap = EmptyMap
    /\ aout = << >>
    /\ served = SourceSize
    /\ pin = << >>
    /\ pout = << >>

SpecRecovery == InitRecovery /\ [][Next]_vars

----------------------------------------------------------------------------
(* get_next_consecutive_id applied to bounded mappings.                    *)

\* Keys of every kind int() tells apart: canonical, zero-padded, signed,
\* with an underscore, and not numeric.
AllocKeys ==
    {<<"0">>, <<"1">>, <<"2">>, <<"3">>, <<"0", "0">>, <<"0", "1">>,
     <<"-", "1">>, <<"+", "2">>, <<"1", "_", "0">>, <<"a">>, <<"a", "1">>,
     <<"_", "1">>}

AllocRecord == link_record("https://example.com/video.mp4", 0,
                           file_info("video.mp4", SourceContentType, SourceSize, 1, 1))

InitAlloc ==
    /\ \E keys \in SUBSET AllocKeys :
         /\ Cardinality(keys) <= MaxKeys
         /\ amap = [k \in keys |-> AllocRecord]
    /\ aout = << >>
    /\ doc = Missing
    /\ backups = {}
    /\ wh = [p \in Threads |-> "none"]
    /\ pc = [p \in Threads |-> "idle"]
    /\ links = [p \in Threads |-> EmptyMap]
    /\ loc = [p \in Threads |-> NoLocals]
    /\ resp = [p \in Threads |-> NoResponse]
    /\ releases = {}
    /\ nextRel = 1
    /\ delCalls = {}
    /\ delOK = {}
    /\ nreq = 0
    /\ served = SourceSize
    /\ pin = << >>
    /\ pout = << >>

allocate_id ==
    /\ aout = << >>
    /\ aout' = get_next_consecutive_id(amap)
    /\ UNCHANGED <<FILES, pc, links, loc, resp, REMOTE, nreq, amap, FIXED>>

NextAlloc == allocate_id

SpecAlloc == InitAlloc /\ [][NextAlloc]_vars

----------------------------------------------------------------------------
(* json.dump and json.load, on the text they write and read.               *)
(*                                                                         *)
(* A Python value is tagged with its type: a str carries its characters,   *)
(* an int its value, a dict a function from keys (character sequences) to  *)
(* values. A text is a sequence of characters; a run of characters that    *)
(* needs no escaping and is never split ("video.mp4") may stand as one     *)
(* element.                                                                *)

PyStr(s) == [t |-> "str", s |-> s]
PyInt(n) == [t |-> "int", n |-> n]
PyDict(d) == [t |-> "dict", d |-> d]
\* json.JSONDecodeError
JSONDecodeError == [t |-> "JSONDecodeError"]

\* The character with code point U+00E9, outside ASCII.
EAcute == "U+00E9"
NewLine == "\n"
Quote == "\""
Backslash == "\\"

\* The dict file_info as json.dump sees it.
py_file_info(fi) ==
    PyDict((<<"filename">> :> PyStr(<<fi.filename>>))
        @@ (<<"content_type">> :> PyStr(<<fi.content_type>>))
        @@ (<<"file_size">> :> PyInt(fi.file_size))
        @@ (<<"github_release_id">> :> PyInt(fi.github_release_id))
        @@ (<<"github_asset_id">> :> PyInt(fi.github_asset_id))
        @@ (<<"download_url">> :>
               PyStr(IF fi.download_url = << >> THEN << >>
                     ELSE <<fi.download_url[1]>> \o IntStr(fi.download_url[2])))
        @@ (<<"release_url">> :>
               PyStr(IF fi.release_url = << >> THEN << >>
                     ELSE <<fi.release_url[1]>> \o IntStr(fi.release_url[2]))))

\* A Link Record as json.dump sees it; created_at is an isoformat() string.
py_link_record(r) ==
    PyDict((<<"original_url">> :> PyStr(<<r.original_url>>))
        @@ (<<"created_at">> :> PyStr(IntStr(r.created_at)))
        @@ (<<"access_count">> :> PyInt(r.access_count))
        @@ (<<"file_info">> :> py_file_info(r.file_info)))

\* The dict `links` as json.dump sees it.
py_links(m) == PyDict([k \in DOMAIN m |-> py_link_record(m[k])])

\* A variant that writes every character as it is.
py_encode_char_raw(c) == <<c>>

\* json.encoder with ensure_ascii: what one character of a str is written as.
py_encode_char(c) ==
    IF c = Quote THEN <<Backslash, Quote>>
    ELSE IF c = Backslash THEN <<Backslash, Backslash>>
    ELSE IF c = NewLine THEN <<Backslash, "n">>
    ELSE IF c = EAcute THEN <<Backslash, "u", "0", "0", "e", "9">>
    ELSE <<c>>

RECURSIVE py_encode_basestring(_)
py_encode_basestring(s) ==
    IF s = << >> THEN << >>
    ELSE py_encode_char(Head(s)) \o py_encode_basestring(Tail(s))

\* The keys of a dict in the order the encoder walks them.
RECURSIVE key_order(_)
key_order(keys) ==
    IF keys = {} THEN << >>
    ELSE LET k == CHOOSE x \in keys : TRUE
         IN  <<k>> \o key_order(keys \ {k})

RECURSIVE json_dumps(_)
RECURSIVE dump_items(_, _, _)
\* The items of dict d from the i-th key of `order` on: "key": value, one a
\* line (indent=2; the run of spaces of an indentation is one element).
dump_items(d, order, i) ==
    IF i > Len(order) THEN << >>
    ELSE <<NewLine, " ", Quote>> \o py_encode_basestring(order[i]) \o <<Quote, ":", " ">>
         \o json_dumps(d[order[i]])
         \o (IF i < Len(order) THEN <<",">> ELSE <<NewLine, " ">>)
         \o dump_items(d, order, i + 1)

\* json.dump(value, f, indent=2): the text written.
json_dumps(v) ==
    IF v.t = "str" THEN <<Quote>> \o py_encode_basestring(v.s) \o <<Quote>>
    ELSE IF v.t = "int" THEN IntStr(v.n)
    ELSE <<"{">> \o dump_items(v.d, key_order(DOMAIN v.d), 1) \o <<"}">>

\* text[i], or "EOF" past the end
CharAt(text, i) == IF i \in 1..Len(text) THEN text[i] ELSE "EOF"

RECURSIVE skip_whitespace(_, _)
skip_whitespace(text, i) ==
    IF CharAt(text, i) \in {" ", NewLine} THEN skip_whitespace(text, i + 1) ELSE i

\* The character a backslash escape stands for ("?" if there is none).
py_unescape(c) ==
    IF c = "n" THEN NewLine
    ELSE IF c \in {Quote, Backslash, "/"} THEN c
    ELSE "?"

\* json.decoder.scanstring from the character after the opening quote.
RECURSIVE py_scanstring(_, _, _)
py_scanstring(text, i, acc) ==
    LET c == CharAt(text, i)
    IN  IF c = "EOF" \/ c = NewLine THEN [v |-> JSONDecodeError, i |-> i]
        ELSE IF c = Quote THEN [v |-> PyStr(acc), i |-> i + 1]
        ELSE IF c = Backslash
          THEN IF CharAt(text, i + 1) = "u"
                 THEN IF SubSeq(text, i + 2, i + 5) = <<"0", "0", "e", "9">>
                        THEN py_scanstring(text, i + 6, Append(acc, EAcute))
                        ELSE [v |-> JSONDecodeError, i |-> i]
               ELSE IF py_unescape(CharAt(text, i + 1)) = "?"
                 THEN [v |-> JSONDecodeError, i |-> i]
               ELSE py_scanstring(text, i + 2, Append(acc, py_unescape(CharAt(text, i + 1))))
        ELSE py_scanstring(text, i + 1, Append(acc, c))

\* The end of the run of sign and digit characters that starts at i.
RECURSIVE number_end(_, _)
number_end(text, i) ==
    IF IsDigit(CharAt(text, i)) \/ CharAt(text, i) = "-"
      THEN number_end(text, i + 1) ELSE i

RECURSIVE scan_once(_, _)
RECURSIVE JSONObject(_, _, _)
\* json.decoder.JSONObject from a key's opening quote at i, the pairs read so
\* far in acc.
JSONObject(text, i, acc) ==
    IF CharAt(text, i) # Quote THEN [v |-> JSONDecodeError, i |-> i]
    ELSE LET key == py_scanstring(text, i + 1, << >>)
             colon == skip_whitespace(text, key.i)
             val == scan_once(text, skip_whitespace(text, colon + 1))
             after == skip_whitespace(text, val.i)
         IN  IF key.v = JSONDecodeError \/ CharAt(text, colon) # ":"
               THEN [v |-> JSONDecodeError, i |-> i]
             ELSE IF val.v = JSONDecodeError THEN val
             ELSE IF CharAt(text, after) = ","
               THEN JSONObject(text, skip_whitespace(text, after + 1),
                               MapPut(acc, key.v.s, val.v))
             ELSE IF CharAt(text, after) = "}"
               THEN [v |-> PyDict(MapPut(acc, key.v.s, val.v)), i |-> after + 1]
             ELSE [v |-> JSONDecodeError, i |-> after]

\* json.scanner: the value that starts at i and where it ends.
scan_once(text, i) ==
    LET c == CharAt(text, i)
    IN  IF c = Quote THEN py_scanstring(text, i + 1, << >>)
        ELSE IF c = "{"
          THEN LET j == skip_whitespace(text, i + 1)
               IN  IF CharAt(text, j) = "}" THEN [v |-> PyDict(EmptyMap), i |-> j + 1]
                   ELSE JSONObject(text, j, EmptyMap)
        ELSE IF IsDigit(c) \/ c = "-"
          THEN LET e == number_end(text, i)
               IN  IF IsIntLiteral(SubSeq(text, i, e - 1))
                     THEN [v |-> PyInt(IntValue(SubSeq(text, i, e - 1))), i |-> e]
                     ELSE [v |-> JSONDecodeError, i |-> i]
        ELSE [v |-> JSONDecodeError, i |-> i]

\* json.load(f): the value of the whole text.
json_loads(text) ==
    LET r == scan_once(text, skip_whitespace(text, 1))
    IN  IF r.v # JSONDecodeError /\ skip_whitespace(text, r.i) = Len(text) + 1
          THEN r.v ELSE JSONDecodeError

\* What load_links returns for a links.json holding text: the dict, or {}
\* for a value that is no dict and for a text that is no JSON.
load_links_text(text) ==
    LET data == json_loads(text)
    IN  IF data # JSONDecodeError /\ data.t = "dict" THEN data ELSE PyDict(EmptyMap)

\* Ids with the characters json.dump escapes.
StoreKeys == {<<"0">>, <<"a", Quote>>, <<Backslash, "n">>, <<EAcute, NewLine>>}

StoreRecords == {AllocRecord, [AllocRecord EXCEPT !.access_count = 12]}

InitStore ==
    /\ \E keys \in SUBSET StoreKeys :
         /\ Cardinality(keys) <= MaxKeys
         /\ pin \in [keys -> StoreRecords]
    /\ pout = [stage |-> "start", text |-> << >>, ret |-> PyDict(EmptyMap)]
    /\ amap = EmptyMap
    /\ aout = << >>
    /\ served = SourceSize
    /\ doc = Missing
    /\ backups = {}
    /\ wh = [p \in Threads |-> "none"]
    /\ pc = [p \in Threads |-> "idle"]
    /\ links = [p \in Threads |-> EmptyMap]
    /\ loc = [p \in Threads |-> NoLocals]
    /\ resp = [p \in Threads |-> NoResponse]
    /\ releases = {}
    /\ nextRel = 1
    /\ delCalls = {}
    /\ delOK = {}
    /\ nreq = 0

\* save_links(pin) runs to its end.
save_links_text ==
    /\ pout.stage = "start"
    /\ pout' = [pout EXCEPT !.stage = "saved", !.text = json_dumps(py_links(pin))]
    /\ UNCHANGED <<FILES, pc, links, loc, resp, REMOTE, nreq, ALLOC, served, pin>>

\* load_links() reads what was saved.
load_saved_text ==
    /\ pout.stage = "saved"
    /\ pout' = [pout EXCEPT !.stage = "loaded", !.ret = load_links_text(pout.text)]
    /\ UNCHANGED <<FILES, pc, links, loc, resp, REMOTE, nreq, ALLOC, served, pin>>

NextStore == save_links_text \/ load_saved_text

SpecStore == InitStore /\ [][NextStore]_vars

----------------------------------------------------------------------------
(* The Filename Resolver of download_and_upload_to_github, on characters.  *)
(*                                                                         *)
(* A header, a URL path and a filename are sequences of characters; the    *)
(* words the code only ever matches whole ("filename", "attachment",       *)
(* "UTF-8", the parts of a content type) stand as one element each.        *)

\* The character with code point U+0001, a control character that is no
\* whitespace.
Ctrl01 == "U+0001"

Whitespace == {" ", "\t", NewLine}

\* c * n
Rep(c, n) == [i \in 1..n |-> c]

\* str.lower() / re.IGNORECASE, on the elements that have an upper case here
lower(c) ==
    IF c = "UTF-8" THEN "utf-8"
    ELSE IF c = "VIDEO" THEN "video"
    ELSE c

LowerSeq(s) == [i \in 1..Len(s) |-> lower(s[i])]

\* s.find(sub, from): the first index at or after `from` where sub starts,
\* 0 if there is none
IndexOf(s, sub, from) ==
    LET at == {i \in from..(Len(s) - Len(sub) + 1) : SubSeq(s, i, i + Len(sub) - 1) = sub}
    IN  IF at = {} THEN 0 ELSE CHOOSE i \in at : \A j \in at : i <= j

\* sub in s
Contains(s, sub) == IndexOf(s, sub, 1) # 0

\* s.strip(chars)
strip_chars(s, chars) ==
    LET keep == {i \in 1..Len(s) : s[i] \notin chars}
    IN  IF keep = {} THEN << >>
        ELSE SubSeq(s, CHOOSE i \in keep : \A j \in keep : i <= j,
                       CHOOSE i \in keep : \A j \in keep : i >= j)

\* s.strip()
strip(s) == strip_chars(s, Whitespace)

\* The indices 1..Len(s), in order
Indices(s) == [i \in 1..Len(s) |-> i]

\* An escape %20, %2E or %2F starts at index i of s.
EscapeAt(s, i) ==
    /\ i >= 1 /\ i + 2 <= Len(s)
    /\ s[i] = "%" /\ s[i + 1] = "2" /\ s[i + 2] \in {"0", "E", "F"}

\* urllib.parse.unquote, for the escapes %20, %2E and %2F: each escape
\* becomes its character, every other character stays.
unquote(s) ==
    LET first == SelectSeq(Indices(s), LAMBDA i : ~EscapeAt(s, i - 1) /\ ~EscapeAt(s, i - 2))
    IN  [k \in 1..Len(first) |->
            IF EscapeAt(s, first[k])
              THEN (IF s[first[k] + 2] = "0" THEN " "
                    ELSE IF s[first[k] + 2] = "E" THEN "." ELSE "/")
              ELSE s[first[k]]]

\* A regular expression found nothing.
NoMatch == [found |-> FALSE, group |-> << >>]
Match(g) == [found |-> TRUE, group |-> g]

\* re.search(r"filename\*=UTF-8''(.+)", h, re.IGNORECASE): the group runs to
\* the end of the header. (The pattern with utf-8 in lower case is the same
\* search under IGNORECASE.)
search_extended(h) ==
    LET i == IndexOf(LowerSeq(h), <<"filename", "*", "=", "utf-8", "'", "'">>, 1)
    IN  IF i = 0 \/ i + 6 > Len(h) THEN NoMatch
        ELSE Match(SubSeq(h, i + 6, Len(h)))

\* re.search(r'filename="([^"]+)"', h, re.IGNORECASE)
search_quoted(h) ==
    LET l == LowerSeq(h)
        at == {i \in 1..(Len(h) - 3) :
                 /\ SubSeq(l, i, i + 2) = <<"filename", "=", Quote>>
                 /\ h[i + 3] # Quote
                 /\ \E k \in (i + 4)..Len(h) : h[k] = Quote}
    IN  IF at = {} THEN NoMatch
        ELSE LET i == CHOOSE x \in at : \A y \in at : x <= y
             IN  Match(SubSeq(h, i + 3, IndexOf(h, <<Quote>>, i + 4) - 1))

\* The characters the bare form stops at: [;,\s]
BareStops == {";", ","} \cup Whitespace

\* re.search(r'filename=([^;,\s]+)', h, re.IGNORECASE)
search_bare(h) ==
    LET l == LowerSeq(h)
        at == {i \in 1..(Len(h) - 2) :
                 /\ SubSeq(l, i, i + 1) = <<"filename", "=">>
                 /\ h[i + 2] \notin BareStops}
    IN  IF at = {} THEN NoMatch
        ELSE LET i == CHOOSE x \in at : \A y \in at : x <= y
                 stops == {k \in (i + 2)..Len(h) : h[k] \in BareStops}
                 e == IF stops = {} THEN Len(h)
                      ELSE (CHOOSE k \in stops : \A j \in stops : k <= j) - 1
             IN  Match(SubSeq(h, i + 2, e))

\* urllib.parse.unquote(match.group(1).strip()).strip('\'"')
extracted_filename(m) == strip_chars(unquote(strip(m.group)), {"'", Quote})

\* The matches of `patterns`, in the order of the list.
pattern_matches(h) == <<search_extended(h), search_quoted(h), search_bare(h)>>

\* for pattern in patterns: the first match whose extracted name is not
\* empty, from the i-th pattern on; << >> (None) if there is none.
RECURSIVE first_extracted(_, _)
first_extracted(ms, i) ==
    IF i > Len(ms) THEN << >>
    ELSE IF ms[i].found /\ extracted_filename(ms[i]) # << >>
      THEN extracted_filename(ms[i])
    ELSE first_extracted(ms, i + 1)

\* if 'filename=' in content_disposition: ... the name the header gives,
\* << >> (None) if it gives none.
content_disposition_filename(h) ==
    IF Contains(h, <<"filename", "=">>) THEN first_extracted(pattern_matches(h), 1)
    ELSE << >>

\* s.split(sep)
RECURSIVE split(_, _)
split(s, sep) ==
    LET i == IndexOf(s, <<sep>>, 1)
    IN  IF i = 0 THEN <<s>>
        ELSE <<SubSeq(s, 1, i - 1)>> \o split(SubSeq(s, i + 1, Len(s)), sep)

\* The last element of parts, << >> if there is none.
LastPart(parts) == IF parts = << >> THEN << >> ELSE parts[Len(parts)]

\* The name the URL path gives: the last part of the unquoted path that
\* holds a '.', << >> (None) if there is none.
url_path_filename(path) ==
    LET url_path == unquote(path)
    IN  IF url_path = << >> \/ url_path = <<"/">> THEN << >>
        ELSE LastPart(SelectSeq(split(strip_chars(url_path, {"/"}), "/"),
                                LAMBDA part : part # << >> /\ Contains(part, <<".">>)))

filename_params == <<"filename", "name", "file", "title", "download", "f">>

MinQueryLen == 2

\* query_params[param][0] for a query given as its (name, value) pairs in
\* order; parse_qs drops the pairs with a blank value. << >> if param is not
\* in query_params.
query_value(query, param) ==
    LET at == {i \in 1..Len(query) : query[i][1] = param /\ query[i][2] # << >>}
    IN  IF at = {} THEN << >> ELSE query[CHOOSE i \in at : \A j \in at : i <= j][2]

\* for param in filename_params: the first one whose value is longer than
\* 2 characters, from the i-th on; << >> (None) if there is none.
RECURSIVE query_filename(_, _)
query_filename(query, i) ==
    IF i > Len(filename_params) THEN << >>
    ELSE IF Len(query_value(query, filename_params[i])) > MinQueryLen
      THEN unquote(query_value(query, filename_params[i]))
    ELSE query_filename(query, i + 1)

\* os.path.splitext(s): <<root, ext>>; ext starts at the last '.' of the
\* last path component, unless only dots come before it in that component.
splitext(s) ==
    LET seps == {i \in 1..Len(s) : s[i] = "/"}
        sep == IF seps = {} THEN 0 ELSE CHOOSE i \in seps : \A j \in seps : i >= j
        dots == {i \in (sep + 1)..Len(s) : s[i] = "."}
        dot == IF dots = {} THEN 0 ELSE CHOOSE i \in dots : \A j \in dots : i >= j
    IN  IF dot > 0 /\ \E j \in (sep + 1)..(dot - 1) : s[j] # "."
          THEN <<SubSeq(s, 1, dot - 1), SubSeq(s, dot, Len(s))>>
          ELSE <<s, << >> >>

\* re.sub(r'\.[^.]+$', '', s): s without a last '.' and what follows it
strip_last_extension(s) ==
    LET dots == {i \in 1..Len(s) : s[i] = "."}
        dot == IF dots = {} THEN 0 ELSE CHOOSE i \in dots : \A j \in dots : i >= j
    IN  IF dot > 0 /\ dot < Len(s) THEN SubSeq(s, 1, dot - 1) ELSE s

BaseNameLen == 20
MinBaseLen == 2
MaxUrlExtLen == 5

FileWord == <<"f", "i", "l", "e">>

\* part.isdigit()
isdigit(part) == part # << >> /\ \A i \in 1..Len(part) : IsDigit(part[i])

\* base_name of the fallback: from the last part of the path that is not a
\* number, "file" without one.
fallback_base_name(path) ==
    LET last_part == LastPart(SelectSeq(split(path, "/"),
                                        LAMBDA part : part # << >> /\ ~isdigit(part)))
        cut == strip_last_extension(last_part)
        base_name == SubSeq(cut, 1, IF Len(cut) < BaseNameLen THEN Len(cut) ELSE BaseNameLen)
    IN  IF path = << >> \/ path = <<"/">> \/ last_part = << >> THEN FileWord
        ELSE IF Len(base_name) < MinBaseLen THEN FileWord
        ELSE base_name

\* content_type_extensions.get(content_type_lower, ''), for the types served
content_type_extensions(ct) ==
    IF ct = <<"video", "/", "mp4">> THEN <<".", "m", "p", "4">>
    ELSE IF ct = <<"application", "/", "pdf">> THEN <<".", "p", "d", "f">>
    ELSE << >>

\* extension of the fallback: by exact content type, then by a word of it,
\* then by the URL path, then '.bin'.
fallback_extension(path, content_type) ==
    LET ct == LowerSeq(content_type)
        url_ext == splitext(path)[2]
    IN  IF content_type_extensions(ct) # << >> THEN content_type_extensions(ct)
        ELSE IF Contains(ct, <<"video">>) THEN <<".", "m", "p", "4">>
        ELSE IF Contains(ct, <<"audio">>) THEN <<".", "m", "p", "3">>
        ELSE IF Contains(ct, <<"image">>) THEN <<".", "j", "p", "g">>
        ELSE IF Contains(ct, <<"pdf">>) THEN <<".", "p", "d", "f">>
        ELSE IF Contains(ct, <<"zip">>) THEN <<".", "z", "i", "p">>
        ELSE IF Contains(ct, <<"text">>) THEN <<".", "t", "x", "t">>
        ELSE IF url_ext # << >> /\ Len(url_ext) <= MaxUrlExtLen THEN url_ext
        ELSE <<".", "b", "i", "n">>

\* filename = f"{base_name}{extension}"
fallback_filename(path, content_type) ==
    fallback_base_name(path) \o fallback_extension(path, content_type)

\* The filename before it is cleaned, and the step that gave it (first match
\* wins); url is the parsed URL: its path and the pairs of its query.
original_filename(content_disposition, url, content_type) ==
    IF content_disposition_filename(content_disposition) # << >>
      THEN [from |-> "header", name |-> content_disposition_filename(content_disposition)]
    ELSE IF url_path_filename(url.path) # << >>
      THEN [from |-> "path", name |-> url_path_filename(url.path)]
    ELSE IF query_filename(url.query, 1) # << >>
      THEN [from |-> "query", name |-> query_filename(url.query, 1)]
    ELSE [from |-> "fallback", name |-> fallback_filename(url.path, content_type)]

\* re.sub(r'[<>:"/\\|?*]', '_', ...)
ForbiddenChars == {"<", ">", ":", Quote, "/", Backslash, "|", "?", "*"}

\* [\x00-\x1f\x7f-\x9f], the ones that occur here
ControlChars == {Ctrl01, "\t", NewLine}

\* The number of '.' that stand directly before index i of s.
DotsBefore(s, i) ==
    LET others == {j \in 1..(i - 1) : s[j] # "."}
    IN  IF others = {} THEN i - 1
        ELSE i - 1 - (CHOOSE j \in others : \A k \in others : j >= k)

\* Scanning from the left without overlap, a '..' is found at index i: two
\* dots, after an even number of dots.
DotDotAt(s, i) ==
    /\ i >= 1 /\ i < Len(s)
    /\ s[i] = "." /\ s[i + 1] = "."
    /\ DotsBefore(s, i) % 2 = 0

\* str.replace('..', '_'): left to right, without overlap
replace_dotdot(s) ==
    LET first == SelectSeq(Indices(s), LAMBDA i : ~DotDotAt(s, i - 1))
    IN  [k \in 1..Len(first) |-> IF DotDotAt(s, first[k]) THEN "_" ELSE s[first[k]]]

MaxFilenameLen == 100
KeptStemLen == 90

\* "Clean and validate filename": the post-processing of the resolved name.
clean_filename(filename) ==
    LET replaced == [i \in 1..Len(filename) |->
                        IF filename[i] \in ForbiddenChars THEN "_" ELSE filename[i]]
        printable == SelectSeq(replaced, LAMBDA c : c \notin ControlChars)
        undotted == replace_dotdot(printable)
        parts == splitext(undotted)
        stem == parts[1]
        short == IF Len(undotted) > MaxFilenameLen
                   THEN SubSeq(stem, 1, IF Len(stem) < KeptStemLen THEN Len(stem)
                                        ELSE KeptStemLen) \o parts[2]
                   ELSE undotted
    IN  IF filename = << >> THEN FileWord \o <<".", "b", "i", "n">>
        ELSE IF short = << >> THEN FileWord \o <<".", "b", "i", "n">>
        ELSE IF short[1] = "." THEN FileWord \o short
        ELSE short

----------------------------------------------------------------------------
(* The Filename Resolver applied to bounded responses.                     *)

Attachment == <<"attachment", ";", " ">>
HeaderQuoted(name) == Attachment \o <<"filename", "=", Quote>> \o name \o <<Quote>>
HeaderBare(name) == Attachment \o <<"filename", "=">> \o name
HeaderExtended(name) == Attachment \o <<"filename", "*", "=", "UTF-8", "'", "'">> \o name

\* Names a server may send: with a leading dot, with forbidden and control
\* characters, with runs of dots, short and longer than the limit, with
\* short, long and double extensions.
NamePrefixes == {<< >>, <<".">>, <<"<", Ctrl01>>, <<".", ".", ".">>}
StemLens == {0, 1, 89, 96}
NameSuffixes ==
    {<< >>, <<".", "m">>, <<".", ".", "m">>, <<".">> \o Rep("b", 12),
     <<".">> \o Rep("b", 9) \o <<".", "m">>}

RawNames ==
    {pre \o Rep("a", n) \o suf : pre \in NamePrefixes, n \in StemLens, suf \in NameSuffixes}

\* Content-Disposition headers: none, without a name, with the name in the
\* quoted, the bare and the extended form (charset in either case), in
\* two forms at once, and with an empty name.
Headers ==
    {<< >>,
     <<"inline">>,
     HeaderQuoted(<<"q", ".", "t">>),
     HeaderBare(<<"b", ".", "t">>),
     HeaderExtended(<<"e", "%", "2", "0", "x", ".", "t">>),
     HeaderQuoted(<<"q", ".", "t">>) \o <<";", " ", "filename", "*", "=", "UTF-8", "'", "'",
                                         "e", ".", "t">>,
     Attachment \o <<"filename", "*", "=", "utf-8", "'", "'", "u", ".", "t">>,
     HeaderQuoted(<< >>)}

\* URLs as urlparse and parse_qs read them.
UrlInputs ==
    {[path |-> << >>, query |-> << >>],
     [path |-> <<"/", "v", "/", "1">>, query |-> << >>],
     [path |-> <<"/", "d", "/", "a", ".", "b", "/", "c">>, query |-> << >>],
     [path |-> <<"/", "d", "l">>,
      query |-> << <<"name", <<"a", "b">> >>, <<"file", <<"r", ".", "t">> >> >>]}

ContentTypes ==
    {<<"video", "/", "mp4">>, <<"VIDEO", "/", "x-matroska">>,
     <<"application", "/", "octet-stream">>}

InitName ==
    /\ \/ pin \in [content_disposition : Headers, url : UrlInputs,
                   content_type : ContentTypes]
       \/ pin \in [content_disposition : {HeaderQuoted(n) : n \in RawNames},
                   url : {[path |-> <<"/", "v", "/", "1">>, query |-> << >>]},
                   content_type : {<<"video", "/", "mp4">>}]
    /\ pout = [stage |-> "start", from |-> "none", original |-> << >>,
               filename |-> << >>, again |-> << >>]
    /\ amap = EmptyMap
    /\ aout = << >>
    /\ served = SourceSize
    /\ doc = Missing
    /\ backups = {}
    /\ wh = [p \in Threads |-> "none"]
    /\ pc = [p \in Threads |-> "idle"]
    /\ links = [p \in Threads |-> EmptyMap]
    /\ loc = [p \in Threads |-> NoLocals]
    /\ resp = [p \in Threads |-> NoResponse]
    /\ releases = {}
    /\ nextRel = 1
    /\ delCalls = {}
    /\ delOK = {}
    /\ nreq = 0

\* The resolution steps give the name as the response and the URL carry it.
resolve_original ==
    /\ pout.stage = "start"
    /\ LET o == original_filename(pin.content_disposition, pin.url, pin.content_type)
       IN  pout' = [pout EXCEPT !.stage = "resolved", !.from = o.from, !.original = o.name]
    /\ UNCHANGED <<FILES, pc, links, loc, resp, REMOTE, nreq, ALLOC, served, pin>>

\* The name is cleaned: this is the filename the pipeline uses.
clean_resolved ==
    /\ pout.stage = "resolved"
    /\ pout' = [pout EXCEPT !.stage = "cleaned", !.filename = clean_filename(pout.original)]
    /\ UNCHANGED <<FILES, pc, links, loc, resp, REMOTE, nreq, ALLOC, served, pin>>

\* The cleaning applied to its own output.
clean_again ==
    /\ pout.stage = "cleaned"
    /\ pout' = [pout EXCEPT !.stage = "again", !.again = clean_filename(pout.filename)]
    /\ UNCHANGED <<FILES, pc, links, loc, resp, REMOTE, nreq, ALLOC, served, pin>>

NextName == resolve_original \/ clean_resolved \/ clean_again

SpecName == InitName /\ [][NextName]_vars

----------------------------------------------------------------------------
(* Claims about get_next_consecutive_id (checked under SpecAlloc).         *)

\* Some stored key reads as the integer n.
KeyReadsAs(m, n) == \E k \in DOMAIN m : IsIntLiteral(k) /\ IntValue(k) = n

\* C4: for every mapping, with numeric-looking keys such as "01" or "-1" and
\* non-numeric keys mixed, the id get_next_consecutive_id returns is not a
\* key of the mapping.
C4_AllocatedIdIsFresh == aout # << >> => aout \notin DOMAIN amap

\* The allocator ran on a mapping holding "01" and "-1".
C4_Witness ==
    /\ aout = <<"0">>
    /\ {<<"0", "1">>, <<"-", "1">>} \subseteq DOMAIN amap

\* C5: the id returned is the decimal string of the smallest n >= 0 that no
\* stored key reads as: every smaller n is taken, n itself is not (so gaps are
\* reused and non-numeric keys take no slot), and the empty store gives "0".
C5_AllocatesSmallestFree ==
    aout # << >> =>
        \E n \in 0..Cardinality(DOMAIN amap) :
            /\ aout = IntStr(n)
            /\ ~KeyReadsAs(amap, n)
            /\ \A j \in 0..(n - 1) : KeyReadsAs(amap, j)
            /\ (amap = EmptyMap => n = 0)

\* The allocator reused the gap at 2 below "3", past a non-numeric key.
C5_Witness ==
    /\ DOMAIN amap = {<<"0">>, <<"0", "1">>, <<"3">>, <<"a">>}
    /\ aout = <<"2">>

----------------------------------------------------------------------------
(* Claims about POST /create (checked under Spec).                         *)

\* Every field of a record's file_info is set.
FileInfoSet(fi) ==
    /\ fi.filename # ""
    /\ fi.content_type # ""
    /\ fi.file_size >= 0
    /\ fi.github_release_id # 0
    /\ fi.github_asset_id # 0
    /\ fi.download_url # << >>
    /\ fi.release_url # << >>

\* Thread p is inside save_links.
Saving(p) == pc[p] \in {"save_open", "save_close"}

\* C1: every record of the store has a fully set file_info; a create handler
\* writes the store only after its pipeline created a release and completed
\* the upload; a POST /create that failed wrote nothing to the store.
C1_NoPartialRecord ==
    /\ \A k \in DOMAIN doc.map : FileInfoSet(doc.map[k].file_info)
    /\ \A p \in Threads :
         (Saving(p) /\ loc[p].op = "create") =>
            /\ {"get", "create_release", "upload"} \subseteq loc[p].calls
            /\ loc[p].release \in 1..(nextRel - 1)
            /\ loc[p].asset # 0
            /\ FileInfoSet(links[p][loc[p].link_id].file_info)
    /\ \A p \in Threads :
         (resp[p].op = "create" /\ resp[p].status # 200) =>
            "save_links" \notin resp[p].calls

\* One create stored its record, another failed in the upload phase.
C1_Witness ==
    \E p, q \in Threads :
        /\ resp[p].op = "create" /\ resp[p].status = 200
        /\ resp[p].link_id \in DOMAIN doc.map
        /\ resp[q].op = "create" /\ resp[q].status = 500
        /\ "upload" \in resp[q].calls

\* C2: an upload that fails (after create_release gave a release) sends the
\* pipeline to the cleanup before anything is answered; the cleanup calls
\* delete_release for exactly that release, and whether that call succeeds or
\* not the request then answers 500 with the wrapped error, without having
\* called save_links and with links.json as it was.
C2_UploadFailureCleansUp ==
    [][\A p \in Threads :
         /\ (pc[p] = "c_upload" /\ pc'[p] # "c_upload" /\ loc'[p].asset = 0) =>
               /\ pc'[p] = "c_cleanup"
               /\ loc'[p].release = loc[p].release
               /\ loc[p].release \in releases
               /\ resp'[p] = NoResponse
         /\ (pc[p] = "c_cleanup" /\ pc'[p] # "c_cleanup") =>
               /\ delCalls' = delCalls \cup {loc[p].release}
               /\ releases' \in {releases, releases \ {loc[p].release}}
               /\ pc'[p] = "idle"
               /\ resp'[p].status = 500
               /\ resp'[p].error = "Processing failed: GitHub upload failed"
               /\ "save_links" \notin resp'[p].calls
               /\ doc' = doc]_vars

\* The upload failed, delete_release was called and failed too, and the
\* request answered 500 over a store that holds no record.
C2_Witness ==
    \E p \in Threads :
        /\ resp[p].op = "create" /\ resp[p].status = 500
        /\ {"upload", "delete_release"} \subseteq resp[p].calls
        /\ delCalls # {} /\ delOK = {} /\ delCalls \subseteq releases
        /\ doc = Missing

\* C3 (as claimed): when a POST /create answers with a failure, every release
\* created for that request has had delete_release called for it.
C3_NoOrphanRelease ==
    [][\A p \in Threads :
         (loc[p].op = "create" /\ resp'[p].op = "create" /\ resp'[p].status # 200
            /\ loc[p].release # 0)
         => loc[p].release \in delCalls']_vars

\* C6: a POST /create whose custom_name is a key of the store answers 400
\* "Custom name already exists" in the step that loaded the store: the handler
\* has returned, having called only load_links, and neither links.json nor
\* the remote service changed.
C6_DuplicateNameRejected ==
    [][\A p \in Threads, u \in Urls \ {""}, c \in CustomNames \ {<< >>} :
         (create_permanent_link(p, u, c) /\ doc.kind = "dict" /\ c \in DOMAIN doc.map)
         => /\ resp'[p].status = 400
            /\ resp'[p].error = "Custom name already exists"
            /\ resp'[p].calls = {"load_links"}
            /\ pc'[p] = "idle"
            /\ doc' = doc
            /\ UNCHANGED REMOTE]_vars

\* A create was turned down for its name while the name's record is stored.
C6_Witness ==
    \E p \in Threads :
        /\ resp[p].op = "create"
        /\ resp[p].error = "Custom name already exists"
        /\ <<"a">> \in DOMAIN doc.map

----------------------------------------------------------------------------
(* Claims about the access counter.                                        *)

\* m with the access_count of record i one higher and nothing else changed,
\* written out field by field.
CountedOnce(m, i) ==
    [k \in DOMAIN m |->
        IF k = i
          THEN [original_url |-> m[k].original_url,
                created_at   |-> m[k].created_at,
                access_count |-> m[k].access_count + 1,
                file_info    |-> m[k].file_info]
          ELSE m[k]]

\* C7 (checked under SpecSeq: the request runs alone): a GET /download/<id>
\* on an id of the store goes on to save the loaded mapping with that record's
\* access_count one higher and nothing else changed, links.json holds exactly
\* that mapping when the handler returns, and the response is a redirect to
\* the record's file_info.download_url.
C7_DownloadCountsOnce ==
    [][\A p \in Threads :
         /\ \A i \in RequestIds :
              (download_file(p, i) /\ doc.kind = "dict" /\ i \in DOMAIN doc.map) =>
                 /\ pc'[p] = "save_open"
                 /\ links'[p] = CountedOnce(doc.map, i)
                 /\ doc' = doc
         /\ (loc[p].op = "download" /\ pc[p] = "save_open" /\ pc'[p] # "save_open") =>
                 /\ pc'[p] = "save_close"
                 /\ links'[p] = links[p]
         /\ (loc[p].op = "download" /\ pc[p] = "save_close" /\ pc'[p] # "save_close") =>
                 /\ doc' = Dumped(links[p])
                 /\ resp'[p].status = 302
                 /\ resp'[p].location =
                        links[p][loc[p].link_id].file_info.download_url
                 /\ resp'[p].location # << >>]_vars

\* A download of one of two stored records was answered: its counter is 1,
\* the other record's is still 0.
C7_Witness ==
    \E p \in Threads :
        /\ resp[p].op = "download" /\ resp[p].status = 302
        /\ doc.kind = "dict"
        /\ resp[p].link_id \in DOMAIN doc.map
        /\ doc.map[resp[p].link_id].access_count = 1
        /\ \E k \in DOMAIN doc.map :
               k # resp[p].link_id /\ doc.map[k].access_count = 0

\* C8 (as claimed, checked under Spec): in every interleaving, what a create,
\* edit or delete handler is about to write gives every record that stays in
\* the store the access_count the store holds for it; a record is the same
\* when its file_info is.
C8_CountOnlyByDownload ==
    \A p \in Threads :
        (pc[p] = "save_open" /\ loc[p].op \in {"create", "edit", "delete"}
           /\ doc.kind = "dict") =>
        \A k \in DOMAIN doc.map, j \in DOMAIN links[p] :
            links[p][j].file_info = doc.map[k].file_info
            => links[p][j].access_count = doc.map[k].access_count

----------------------------------------------------------------------------
(* Claims about load_links and save_links.                                 *)

\* Some thread calls load_links() in this step.
LoadStep ==
    \E p \in Threads :
        \/ \E u \in Urls \ {""}, c \in CustomNames : create_permanent_link(p, u, c)
        \/ \E i \in RequestIds : download_file(p, i)
        \/ list_links(p)
        \/ \E i \in RequestIds, n \in NewIds : edit_link(p, i, n)
        \/ \E i \in RequestIds : delete_link(p, i)

\* C9 (as claimed, checked under SpecRecovery): a load of a missing document
\* changes nothing; a load of a document that is no JSON, or JSON that is no
\* mapping, leaves the path free with the content kept among the backups.
C9_LoadPreservesDamagedFile ==
    [][LoadStep =>
         /\ doc.kind = "missing" => (doc' = doc /\ backups' = backups)
         /\ doc.kind \in {"corrupt", "partial", "undecodable", "nondict"} =>
                (doc' = Missing /\ doc \in backups')]_vars

\* C10 (as claimed, checked under Spec): no load reads links.json while a
\* save has it truncated and not yet written, and no such content is ever
\* set aside as a corrupted file.
C10_LoadNeverSeesPartialWrite ==
    [][LoadStep =>
         /\ doc.kind # "partial"
         /\ \A b \in backups' : b.kind # "partial"]_vars

\* C11: for every mapping of string ids to Link Records, what load_links
\* returns from the text save_links wrote for it is that mapping: the same
\* keys with the same records.
C11_SaveLoadRoundTrip ==
    pout.stage = "loaded" => pout.ret = py_links(pin)

\* A mapping whose ids hold a quote, a backslash, a newline and a character
\* outside ASCII was saved and loaded.
C11_Witness ==
    /\ pout.stage = "loaded"
    /\ DOMAIN pin = StoreKeys
    /\ \E k \in DOMAIN pin : pin[k].access_count = 12

----------------------------------------------------------------------------
(* Claims about the transfer pipeline.                                     *)

\* The largest body the pipeline is to accept (2GB): an ordinary body is
\* within it, the bodies of SpecLarge are over it.
AcceptedCeiling == SourceSize

\* C12 (as claimed, checked under SpecLarge): a pipeline that has read a body
\* larger than the ceiling never gets to the upload, and no record of such a
\* body is in the store.
C12_OversizeBodyAborts ==
    /\ \A p \in Threads :
         loc[p].size > AcceptedCeiling =>
            /\ pc[p] = "c_body"
            /\ "upload" \notin loc[p].calls
    /\ \A k \in DOMAIN doc.map : doc.map[k].file_info.file_size <= AcceptedCeiling

\* C13 (as claimed, checked under SpecSeq): a create_release that was answered
\* "tag already exists", while the body was read whole, has posted a second
\* time before the pipeline ends.
C13_TagCollisionRetried ==
    [][\A p \in Threads :
         (loc[p].fut = "tag_exists" /\ loc[p].body = "ok" /\ resp'[p].op = "create")
         => loc[p].release_posts = 2]_vars

\* C20: create_release is submitted only after the source answered and the
\* filename was resolved; the upload runs only after the whole body was read
\* and create_release returned a release that exists remotely, and the asset
\* it returns belongs to that release; the pipeline returns its file_info,
\* and the request answers 200, only after the upload returned an asset.
C20_PipelineOrder ==
    \A p \in Threads :
        /\ (loc[p].fut # "none" \/ "create_release" \in loc[p].calls) =>
               /\ "get" \in loc[p].calls
               /\ loc[p].filename # ""
        /\ (pc[p] = "c_upload" \/ "upload" \in loc[p].calls) =>
               /\ loc[p].body = "ok"
               /\ loc[p].size = served
               /\ loc[p].fut = "ok"
               /\ loc[p].release \in 1..(nextRel - 1)
        /\ loc[p].asset # 0 =>
               /\ "upload" \in loc[p].calls
               /\ loc[p].asset = loc[p].release
        /\ pc[p] = "c_store" => loc[p].asset # 0
        /\ (resp[p].op = "create" /\ resp[p].status = 200) =>
               {"get", "create_release", "upload", "save_links"} \subseteq resp[p].calls

\* A pipeline has returned its file_info while the other thread's pipeline
\* is still reading its body, its release already created.
C20_Witness ==
    \E p, q \in Threads :
        /\ pc[p] = "c_store"
        /\ pc[q] = "c_body" /\ loc[q].fut = "ok" /\ loc[q].body = "reading"

----------------------------------------------------------------------------
(* Claims about PUT /admin/edit and DELETE /admin/delete (checked under    *)
(* SpecSeq: the request runs alone).                                       *)

\* new_link_id passes the format checks of edit_link.
ValidNewId(n) ==
    /\ n # << >>
    /\ IdCharsOk(n)
    /\ Len(n) <= MaxIdLen
    /\ n[1] # "-" /\ n[Len(n)] # "-"

\* m with the record of i under n instead, written out key by key.
Renamed(m, i, n) ==
    [k \in ((DOMAIN m) \ {i}) \cup {n} |-> IF k = n THEN m[i] ELSE m[k]]

\* C14: an edit of a stored id to a valid new id that is no key goes on to
\* save the loaded mapping with the record moved, unchanged, from the old key
\* to the new one and every other record as it was; links.json holds exactly
\* that when the handler answers 200, and no remote call is made. An edit to
\* the key of a different record answers 400 and leaves links.json as it is.
C14_EditMovesRecord ==
    [][\A p \in Threads :
         /\ \A i \in RequestIds, n \in NewIds :
              (edit_link(p, i, n) /\ doc.kind = "dict" /\ i \in DOMAIN doc.map
                 /\ ValidNewId(n) /\ n # i) =>
                 IF n \notin DOMAIN doc.map
                   THEN /\ pc'[p] = "save_open"
                        /\ links'[p] = Renamed(doc.map, i, n)
                        /\ links'[p][n] = doc.map[i]
                        /\ doc' = doc
                        /\ UNCHANGED REMOTE
                   ELSE /\ pc'[p] = "idle"
                        /\ resp'[p].status = 400
                        /\ doc' = doc
                        /\ UNCHANGED REMOTE
         /\ (loc[p].op = "edit" /\ pc[p] = "save_open" /\ pc'[p] # "save_open") =>
                 /\ pc'[p] = "save_close"
                 /\ links'[p] = links[p]
                 /\ UNCHANGED REMOTE
         /\ (loc[p].op = "edit" /\ pc[p] = "save_close" /\ pc'[p] # "save_close") =>
                 /\ doc' = Dumped(links[p])
                 /\ loc[p].link_id \notin DOMAIN doc'.map
                 /\ loc[p].new_link_id \in DOMAIN doc'.map
                 /\ resp'[p].status = 200
                 /\ resp'[p].calls = {"load_links", "save_links"}
                 /\ UNCHANGED REMOTE]_vars

\* An edit was answered 200: the record of "0" is now under "b", next to the
\* record of "1".
C14_Witness ==
    \E p \in Threads :
        /\ resp[p].op = "edit" /\ resp[p].status = 200
        /\ "save_links" \in resp[p].calls
        /\ doc.kind = "dict"
        /\ DOMAIN doc.map = {<<"b">>, <<"1">>}

\* C15: a delete of a stored id goes on to call delete_release for that
\* record's release, once; whether that call succeeds or not, the handler
\* then saves the loaded mapping without the record, links.json holds exactly
\* that when the handler answers, and the answer is success.
C15_DeleteIsBestEffort ==
    [][\A p \in Threads :
         /\ \A i \in RequestIds :
              (delete_link(p, i) /\ doc.kind = "dict" /\ i \in DOMAIN doc.map) =>
                 /\ pc'[p] = "d_release"
                 /\ links'[p] = doc.map
                 /\ doc' = doc
                 /\ UNCHANGED REMOTE
         /\ (pc[p] = "d_release" /\ pc'[p] # "d_release") =>
                 LET rel == links[p][loc[p].link_id].file_info.github_release_id
                 IN  /\ delCalls' = delCalls \cup {rel}
                     /\ releases' \in {releases, releases \ {rel}}
                     /\ pc'[p] = "save_open"
                     /\ links'[p] = [k \in (DOMAIN links[p]) \ {loc[p].link_id} |-> links[p][k]]
                     /\ "delete_release" \notin loc[p].calls
                     /\ "delete_release" \in loc'[p].calls
         /\ (loc[p].op = "delete" /\ pc[p] = "save_open" /\ pc'[p] # "save_open") =>
                 /\ pc'[p] = "save_close"
                 /\ links'[p] = links[p]
                 /\ UNCHANGED REMOTE
         /\ (loc[p].op = "delete" /\ pc[p] = "save_close" /\ pc'[p] # "save_close") =>
                 /\ doc' = Dumped(links[p])
                 /\ loc[p].link_id \notin DOMAIN doc'.map
                 /\ resp'[p].status = 200
                 /\ "delete_release" \in resp'[p].calls
                 /\ UNCHANGED REMOTE]_vars

\* A delete was answered 200 although its delete_release failed: the record
\* is gone, the release is still there.
C15_Witness ==
    \E p \in Threads :
        /\ resp[p].op = "delete" /\ resp[p].status = 200
        /\ doc.kind = "dict" /\ DOMAIN doc.map = {}
        /\ delCalls # {} /\ delOK = {} /\ delCalls \subseteq releases

\* C16 (as claimed, checked under Spec): in every interleaving, a create that
\* is about to write the store does not hold an id that is a key of
\* links.json at that moment.
C16_CreateNeverReplaces ==
    \A p \in Threads :
        (pc[p] = "save_open" /\ loc[p].op = "create" /\ doc.kind = "dict")
        => loc[p].link_id \notin DOMAIN doc.map

----------------------------------------------------------------------------
(* Claims about the Filename Resolver (checked under SpecName).            *)

\* C17 (as claimed): the filename the resolver produces is not empty, at
\* most 100 characters long, holds no '..' and none of the forbidden or
\* control characters.
C17_FilenameIsSafe ==
    pout.stage \in {"cleaned", "again"} =>
        /\ Len(pout.filename) > 0
        /\ Len(pout.filename) <= MaxFilenameLen
        /\ ~Contains(pout.filename, <<".", ".">>)
        /\ \A i \in 1..Len(pout.filename) :
               pout.filename[i] \notin ForbiddenChars \cup ControlChars

\* C18 (as claimed): cleaning a filename that is already cleaned gives the
\* same filename.
C18_CleaningIsIdempotent ==
    pout.stage = "again" => pout.again = pout.filename

\* The name a header carries in one of the three forms, the extended form
\* first, then the quoted, then the bare one; << >> if it carries none.
HeaderName(h) == first_extracted(pattern_matches(h), 1)

\* The parts of the URL path that hold a '.'.
DottedParts(path) ==
    SelectSeq(split(unquote(path), "/"), LAMBDA part : Contains(part, <<".">>))

\* The candidate parameters, in their order, whose value is longer than 2
\* characters.
LongCandidates(query) ==
    SelectSeq(filename_params, LAMBDA param : Len(query_value(query, param)) > MinQueryLen)

\* C19 (as claimed): the name comes from the Content-Disposition header
\* whenever the header carries one in any of the three forms; otherwise from
\* the last URL path part holding a '.'; otherwise from the first candidate
\* query parameter with a value longer than 2 characters; otherwise it is the
\* synthesized fallback.
C19_FirstMatchWins ==
    pout.stage # "start" =>
        IF HeaderName(pin.content_disposition) # << >>
          THEN /\ pout.from = "header"
               /\ pout.original = HeaderName(pin.content_disposition)
        ELSE IF DottedParts(pin.url.path) # << >>
          THEN /\ pout.from = "path"
               /\ pout.original =
                      DottedParts(pin.url.path)[Len(DottedParts(pin.url.path))]
        ELSE IF LongCandidates(pin.url.query) # << >>
          THEN /\ pout.from = "query"
               /\ pout.original =
                      unquote(query_value(pin.url.query, LongCandidates(pin.url.query)[1]))
        ELSE pout.from = "fallback"

----------------------------------------------------------------------------
(* Claims about the end of a pipeline run (checked under SpecFair).        *)

\* Thread p runs a POST /create that has started the pipeline.
InPipeline(p) == loc[p].op = "create" /\ pc[p] # "idle"

\* The run of p has failed: the body download or the release creation
\* raised, or the upload did.
Failed(p) ==
    /\ InPipeline(p)
    /\ \/ loc[p].body = "err"
       \/ loc[p].fut \in ReleaseAnswers \ {"created"}
       \/ pc[p] = "c_cleanup"

\* The messages download_and_upload_to_github wraps its errors into.
WrappedErrors ==
    {"Processing failed: source request failed",
     "Processing failed: source download failed",
     "Processing failed: GitHub API failed",
     "Processing failed: GitHub upload failed"}

\* C21: with every handler thread scheduled and every call returning or
\* raising, a POST /create that started the pipeline has no response while it
\* runs and ends with exactly one: 200 exactly when the upload returned an
\* asset and save_links was called with the record in the mapping, else 500
\* with one wrapped message and no save_links call; a run that has failed
\* never reaches the upload, the store write or save_links; a finished
\* request's response stays until its thread takes the next request; and
\* every started run does end with its response.
C21_CreateAlwaysAnswers ==
    /\ [][\A p \in Threads :
            /\ InPipeline(p) => resp[p] = NoResponse
            /\ (InPipeline(p) /\ pc'[p] = "idle") =>
                  /\ resp'[p].op = "create"
                  /\ resp'[p].status \in {200, 500}
                  /\ resp'[p].status = 200 <=>
                        /\ pc[p] = "save_close"
                        /\ {"get", "create_release", "upload", "save_links"}
                               \subseteq resp'[p].calls
                        /\ loc[p].asset # 0
                        /\ loc[p].link_id \in DOMAIN links[p]
                        /\ resp'[p].link_id = loc[p].link_id
                  /\ resp'[p].status = 500 =>
                        /\ resp'[p].error \in WrappedErrors
                        /\ "save_links" \notin resp'[p].calls
                        /\ Failed(p) \/ pc[p] = "c_get"
            /\ Failed(p) =>
                  /\ pc'[p] \notin {"c_upload", "c_store", "save_open", "save_close"}
                  /\ pc[p] # "c_cleanup" => "upload" \notin loc'[p].calls \cup resp'[p].calls
            /\ (pc[p] = "idle" /\ pc'[p] = "idle" /\ resp'[p] # resp[p]) =>
                  nreq' = nreq + 1]_vars
    /\ \A p \in Threads :
          InPipeline(p) ~>
              (pc[p] = "idle" /\ resp[p].op = "create" /\ resp[p].status \in {200, 500})

\* One create answered 200 with its record stored, another answered 500
\* after its body download broke off while its release had been created.
C21_Witness ==
    \E p, q \in Threads :
        /\ resp[p].op = "create" /\ resp[p].status = 200
        /\ "save_links" \in resp[p].calls
        /\ resp[q].op = "create" /\ resp[q].status = 500
        /\ resp[q].error = "Processing failed: source download failed"
        /\ "create_release" \in resp[q].calls

----------------------------------------------------------------------------
(* Claims about requests for an unknown id (checked under Spec).           *)

\* Id i is a key neither of links.json nor of a mapping some handler is about
\* to write to it.
UnknownId(i) ==
    /\ i \notin DOMAIN doc.map
    /\ \A q \in Threads : i \notin DOMAIN links[q]

\* The handler of p answered 404 having only loaded, and neither the file
\* system nor the remote service changed.
NotFoundOnly(p) ==
    /\ pc'[p] = "idle"
    /\ resp'[p].status = 404
    /\ resp'[p].calls = {"load_links"}
    /\ doc' = doc
    /\ backups' = backups
    /\ UNCHANGED REMOTE

\* C22 (as claimed): a GET /download/<id>, PUT /admin/edit/<id> or DELETE
\* /admin/delete/<id> for an id that is no key of the store answers 404 in the
\* step that loaded the store, has called neither save_links nor the remote
\* API, and leaves links.json as it was.
C22_UnknownIdChangesNothing ==
    [][\A p \in Threads, i \in RequestIds :
         /\ (download_file(p, i) /\ UnknownId(i)) => NotFoundOnly(p)
         /\ (delete_link(p, i) /\ UnknownId(i)) => NotFoundOnly(p)
         /\ \A n \in NewIds :
              (edit_link(p, i, n) /\ UnknownId(i)) => NotFoundOnly(p)]_vars

----------------------------------------------------------------------------
(* Claims about overlapping requests (checked under Spec).                 *)

\* Every thread has served one GET /download/<i> to its redirect, and the
\* only other request served so far is the POST /create of the record: no
\* edit or delete has been requested.
AllDownloaded(i) ==
    /\ nreq = Cardinality(Threads) + 1
    /\ \A p \in Threads :
         /\ pc[p] = "idle"
         /\ resp[p].op = "download"
         /\ resp[p].status = 302
         /\ resp[p].link_id = i

\* C23 (as claimed): when one GET /download/<i> per thread has completed on a
\* record created with access_count 0, in whatever order their loads and
\* saves ran, the stored access_count is the number of those requests.
C23_NoLostIncrement ==
    \A i \in RequestIds :
        (AllDownloaded(i) /\ doc.kind = "dict" /\ i \in DOMAIN doc.map)
        => doc.map[i].access_count = Cardinality(Threads)

\* The last request of thread p was a POST /create that answered 200.
Created(p) == resp[p].op = "create" /\ resp[p].status = 200

\* The release behind the record p's create answered for: the response
\* carries the asset's download_url.
ReleaseOf(p) == resp[p].location[2]

\* Since p's create answered, its record was neither deleted nor renamed,
\* no delete or edit of its id is under way, and no other create was given
\* the same id.
Untouched(p) ==
    /\ ReleaseOf(p) \notin delCalls
    /\ \A k \in DOMAIN doc.map \ {resp[p].link_id} :
           doc.map[k].file_info.download_url # resp[p].location
    /\ \A q \in Threads \ {p} :
         /\ ~(loc[q].op \in {"edit", "delete"} /\ loc[q].link_id = resp[p].link_id)
         /\ ~(loc[q].op = "create" /\ loc[q].link_id = resp[p].link_id)
         /\ ~(resp[q].op = "create" /\ resp[q].link_id = resp[p].link_id)

\* C24 (as claimed): the record of a POST /create that answered 200 is in
\* links.json under its id with the file_info it was answered with, as long
\* as it was not deleted or renamed, whatever requests for other ids ran
\* alongside the create; stated for the runs in which every save wrote to
\* links.json itself (no file was set aside) and left it readable.
C24_CreatedRecordStays ==
    \A p \in Threads :
        (Created(p) /\ Untouched(p) /\ backups = {} /\ doc.kind = "dict") =>
            /\ resp[p].link_id \in DOMAIN doc.map
            /\ doc.map[resp[p].link_id].file_info.download_url = resp[p].location

\* A DELETE /admin/delete is between its load and the return of its save.
Deleting(q) == loc[q].op = "delete" /\ pc[q] # "idle"

\* C25 (as claimed): whenever no delete is under way, no record of
\* links.json references a release whose delete_github_release call
\* succeeded: a record deleted with its release does not come back through
\* the save of a request that loaded before the delete wrote.
C25_NoDanglingRecord ==
    (doc.kind = "dict" /\ \A q \in Threads : ~Deleting(q)) =>
        \A k \in DOMAIN doc.map :
            doc.map[k].file_info.github_release_id \notin delOK

====
